---- MODULE Spec2Model ----
(***************************************************************************)
(* A model of two packages of annotated-grpc-go:                           *)
(*                                                                         *)
(*   status      the public bridge between Status values, native errors,   *)
(*               context errors and the wire form of a Status              *)
(*   attributes  the key/value store with copy-on-derive semantics         *)
(*                                                                         *)
(* The functions of package status are pure.  They are modelled as         *)
(* operators, and the specification Spec applies them to inputs drawn from *)
(* bounded sets and keeps the last call (operation, input, output).        *)
(* Package attributes is modelled as a heap of Attributes objects under    *)
(* the specification SpecAttr.                                             *)
(***************************************************************************)
EXTENDS Integers, Sequences, FiniteSets, TLC

VARIABLES call, heap, log, seen, panicked

statusVars == <<call>>
attrVars == <<heap, log, seen, panicked>>
vars == <<call, heap, log, seen, panicked>>

(***************************************************************************)
(* Bounds of the model.                                                    *)
(***************************************************************************)
\* how many numeric codes beyond the declared enumeration are tried
ExtraCodes == 1
\* the longest detail sequence a Status or a wire record carries
MaxDetails == 2
\* the longest variadic argument list given to New / WithValues
MaxKvs == 4
\* how many Attributes objects are allocated
MaxObjs == 3

(***************************************************************************)
(* Package codes: the numeric values of the codes the package refers to.   *)
(***************************************************************************)
OK == 0
Canceled == 1
Unknown == 2
DeadlineExceeded == 4
\* the last member of the declared enumeration (Unauthenticated)
LastDeclared == 16

Codes ==
    {OK, Canceled, Unknown, DeadlineExceeded, LastDeclared}
        \cup ((LastDeclared + 1) .. (LastDeclared + ExtraCodes))

Msgs == {"", "boom"}

(***************************************************************************)
(* Status values.  A *Status is either nil or points to an immutable       *)
(* (code, message, details) value.  A detail is an opaque typed record.    *)
(***************************************************************************)
NilStatus == [ptr |-> "nil"]

DetailRecs == {[type |-> "t1", payload |-> "p1"], [type |-> "t2", payload |-> "p2"]}

DetailSeqs == UNION {[1..n -> DetailRecs] : n \in 0..MaxDetails}

Statuses == [code : Codes, message : Msgs, details : DetailSeqs]

\* internal/status.New: a Status with the code and message and no details
statusNew(c, msg) == [code |-> c, message |-> msg, details |-> <<>>]

\* (*Status).Code: the accessor is nil-safe; an absent Status reads as OK
StatusCode(s) == IF s = NilStatus THEN OK ELSE s.code

(***************************************************************************)
(* Native errors.  The nil error, plain errors (only Error()), the two     *)
(* context errors, the errors this package produces from a Status, and     *)
(* errors of unrelated types that offer GRPCStatus().                      *)
(***************************************************************************)
NilErr == [kind |-> "nil"]

ctxDeadlineExceeded == [kind |-> "deadline", text |-> "context deadline exceeded"]

ctxCanceled == [kind |-> "canceled", text |-> "context canceled"]

\* plain errors, one of them with the text of context.Canceled but another value
PlainErrs == [kind : {"plain"}, text : {"", "boom", "context canceled"}]

\* canonical display name of a code
CodeString(c) ==
    CASE c = OK -> "OK"
      [] c = Canceled -> "Canceled"
      [] c = Unknown -> "Unknown"
      [] c = DeadlineExceeded -> "DeadlineExceeded"
      [] c = LastDeclared -> "Unauthenticated"
      [] OTHER -> "Code(" \o ToString(c) \o ")"

\* (*Status).Err: nil for an OK code, else an error that carries the Status
StatusErr(s) ==
    IF StatusCode(s) = OK
    THEN NilErr
    ELSE [kind |-> "status", st |-> s,
          text |-> "rpc error: code = " \o CodeString(s.code)
                       \o " desc = " \o s.message]

\* errors of unrelated types whose GRPCStatus() returns any Status, also nil
ThirdPartyErrs == [kind : {"third"}, st : Statuses \cup {NilStatus}, text : {"third"}]

ErrValues ==
    {NilErr, ctxDeadlineExceeded, ctxCanceled} \cup PlainErrs
        \cup {StatusErr(s) : s \in {t \in Statuses : t.code # OK}}
        \cup ThirdPartyErrs

\* err.Error()
ErrorText(err) == err.text

\* the type assertion err.(interface{ GRPCStatus() *Status }): by method set
HasGRPCStatus(err) == "st" \in DOMAIN err

\* se.GRPCStatus()
GRPCStatus(err) == err.st

(***************************************************************************)
(* The wire form: code, message and the details as tagged blobs.           *)
(***************************************************************************)
\* a detail record encoded as a self-describing blob: <<type id, bytes>>
Marshal(d) == <<d.type, d.payload>>

Unmarshal(b) == [type |-> b[1], payload |-> b[2]]

Blobs == {Marshal(d) : d \in DetailRecs}

BlobSeqs == UNION {[1..n -> Blobs] : n \in 0..MaxDetails}

Wires == [code : Codes, message : Msgs, details : BlobSeqs]

\* (*Status).Proto: the forward projection of a Status
StatusProto(s) ==
    [code |-> s.code, message |-> s.message,
     details |-> [i \in DOMAIN s.details |-> Marshal(s.details[i])]]

\* internal/status.FromProto: the Status a wire record stands for
statusFromProto(w) ==
    [code |-> w.code, message |-> w.message,
     details |-> [i \in DOMAIN w.details |-> Unmarshal(w.details[i])]]

(***************************************************************************)
(* Package status, the public functions.                                   *)
(***************************************************************************)
New(c, msg) == statusNew(c, msg)

\* a slip that wraps the Status without asking Err(): OK becomes an error
ErrorWithoutOKCheck(c, msg) ==
    [kind |-> "status", st |-> New(c, msg), text |-> msg]

\* a slip that keeps only the text: the Status is not recoverable
ErrorAsPlainText(c, msg) ==
    IF c = OK THEN NilErr ELSE [kind |-> "plain", text |-> msg]

Error(c, msg) == StatusErr(New(c, msg))

\* a slip that loses the details of the wire record
FromProtoWithoutDetails(w) == [statusFromProto(w) EXCEPT !.details = <<>>]

FromProto(w) == statusFromProto(w)

ErrorProto(w) == StatusErr(FromProto(w))

\* a slip that recognizes only this package's own error type
FromErrorByConcreteType(err) ==
    IF err = NilErr
    THEN [s |-> NilStatus, ok |-> TRUE]
    ELSE IF err.kind = "status"
         THEN [s |-> GRPCStatus(err), ok |-> TRUE]
         ELSE [s |-> New(Unknown, ErrorText(err)), ok |-> FALSE]

\* a variant that builds an OK Status for the nil error
FromErrorNilAsOK(err) ==
    IF err = NilErr
    THEN [s |-> New(OK, ""), ok |-> TRUE]
    ELSE IF HasGRPCStatus(err)
         THEN [s |-> GRPCStatus(err), ok |-> TRUE]
         ELSE [s |-> New(Unknown, ErrorText(err)), ok |-> FALSE]

FromError(err) ==
    IF err = NilErr
    THEN [s |-> NilStatus, ok |-> TRUE]
    ELSE IF HasGRPCStatus(err)
         THEN [s |-> GRPCStatus(err), ok |-> TRUE]
         ELSE [s |-> New(Unknown, ErrorText(err)), ok |-> FALSE]

Convert(err) == FromError(err).s

\* a slip that skips the capability probe
CodeWithoutProbe(err) == IF err = NilErr THEN OK ELSE Unknown

Code(err) ==
    IF err = NilErr
    THEN OK
    ELSE IF HasGRPCStatus(err)
         THEN StatusCode(GRPCStatus(err))
         ELSE Unknown

\* a slip that matches the context errors by their text, not by identity
FromContextErrorByText(err) ==
    IF err = NilErr
    THEN NilStatus
    ELSE IF ErrorText(err) = ErrorText(ctxDeadlineExceeded)
         THEN New(DeadlineExceeded, ErrorText(err))
         ELSE IF ErrorText(err) = ErrorText(ctxCanceled)
              THEN New(Canceled, ErrorText(err))
              ELSE New(Unknown, ErrorText(err))

FromContextError(err) ==
    CASE err = NilErr -> NilStatus
      [] err = ctxDeadlineExceeded -> New(DeadlineExceeded, ErrorText(err))
      [] err = ctxCanceled -> New(Canceled, ErrorText(err))
      [] OTHER -> New(Unknown, ErrorText(err))

(***************************************************************************)
(* The calls of package status.  call is the last call: its operation, its *)
(* input and its output.  The methods Err and Proto are called on the      *)
(* Status the previous call returned.                                      *)
(***************************************************************************)
NoCall == [op |-> "init"]

\* the *Status the caller holds: the result of the last call, if it gave one
Held ==
    IF call.op \in {"New", "FromProto", "FromError", "Convert", "FromContextError"}
    THEN call.out.s
    ELSE NilStatus

DoNew ==
    /\ \E c \in Codes, msg \in Msgs :
        call' = [op |-> "New", in |-> [c |-> c, msg |-> msg],
                 out |-> [s |-> New(c, msg)]]
    /\ UNCHANGED attrVars

DoError ==
    /\ \E c \in Codes, msg \in Msgs :
        call' = [op |-> "Error", in |-> [c |-> c, msg |-> msg],
                 out |-> [err |-> Error(c, msg)]]
    /\ UNCHANGED attrVars

\* s.Err() on the Status in hand
DoErr ==
    /\ Held # NilStatus
    /\ call' = [op |-> "Err", in |-> [s |-> Held], out |-> [err |-> StatusErr(Held)]]
    /\ UNCHANGED attrVars

\* s.Proto() on the Status in hand
DoProto ==
    /\ Held # NilStatus
    /\ call' = [op |-> "Proto", in |-> [s |-> Held], out |-> [wire |-> StatusProto(Held)]]
    /\ UNCHANGED attrVars

DoFromProto ==
    /\ \E w \in Wires :
        call' = [op |-> "FromProto", in |-> [wire |-> w], out |-> [s |-> FromProto(w)]]
    /\ UNCHANGED attrVars

DoErrorProto ==
    /\ \E w \in Wires :
        call' = [op |-> "ErrorProto", in |-> [wire |-> w],
                 out |-> [err |-> ErrorProto(w)]]
    /\ UNCHANGED attrVars

DoFromError ==
    /\ \E err \in ErrValues :
        call' = [op |-> "FromError", in |-> [err |-> err], out |-> FromError(err)]
    /\ UNCHANGED attrVars

DoConvert ==
    /\ \E err \in ErrValues :
        call' = [op |-> "Convert", in |-> [err |-> err], out |-> [s |-> Convert(err)]]
    /\ UNCHANGED attrVars

DoCode ==
    /\ \E err \in ErrValues :
        call' = [op |-> "Code", in |-> [err |-> err], out |-> [code |-> Code(err)]]
    /\ UNCHANGED attrVars

DoFromContextError ==
    /\ \E err \in ErrValues :
        call' = [op |-> "FromContextError", in |-> [err |-> err],
                 out |-> [s |-> FromContextError(err)]]
    /\ UNCHANGED attrVars

Next ==
    \/ DoNew
    \/ DoError
    \/ DoErr
    \/ DoProto
    \/ DoFromProto
    \/ DoErrorProto
    \/ DoFromError
    \/ DoConvert
    \/ DoCode
    \/ DoFromContextError

Init ==
    /\ call = NoCall
    /\ heap = <<>>
    /\ log = <<>>
    /\ seen = [a |-> 0]
    /\ panicked = FALSE

Spec == Init /\ [][Next]_vars

(***************************************************************************)
(* Package attributes.  heap[a] is the map m of the Attributes object a    *)
(* (a *Attributes is an index of heap).  log[a] records how a was made:    *)
(* the object it was derived from (0 for New) and the concatenation of all *)
(* the key/value lists that went into it.  seen is the last Value lookup.  *)
(***************************************************************************)
Keys == {"k1", "k2"}

\* the nil interface value, what a map read of a missing key gives
NilVal == <<>>

\* The code never inspects a value, so every pair written carries a value of
\* its own: the j-th pair of the call that allocates object n.
Val(n, j) == <<n, j>>

\* the argument lists of the call that allocates object n: key1, value1, key2, ...
\* of every length up to MaxKvs, odd lengths included
KvLists(n) ==
    UNION {{[i \in 1..len |->
                IF i % 2 = 1 THEN ks[(i + 1) \div 2] ELSE Val(n, i \div 2)]
                : ks \in [1..((len + 1) \div 2) -> Keys]} : len \in 0..MaxKvs}

\* make(map[interface{}]interface{}, n)
EmptyMap == [k \in {} |-> NilVal]

\* the source's remark reads "the old one overrides the new one"
MapPutKeepOld(m, k, v) ==
    IF k \in DOMAIN m THEN m ELSE [x \in DOMAIN m \cup {k} |-> IF x = k THEN v ELSE m[x]]

\* m[k] = v
MapPut(m, k, v) == [x \in DOMAIN m \cup {k} |-> IF x = k THEN v ELSE m[x]]

\* for i := 0; i < len(kvs)/2; i++ { m[kvs[i*2]] = kvs[i*2+1] }, from pair i on
RECURSIVE WritePairs(_, _, _)
WritePairs(m, kvs, i) ==
    IF i > Len(kvs) \div 2
    THEN m
    ELSE WritePairs(MapPut(m, kvs[2 * i - 1], kvs[2 * i]), kvs, i + 1)

\* attributes.New on an even-length list: the heap with the new object appended
AttributesNew(h, kvs) == Append(h, WritePairs(EmptyMap, kvs, 1))

\* a slip that shares the receiver's map instead of copying it
WithValuesSharingMap(h, a, kvs) ==
    Append([h EXCEPT ![a] = WritePairs(h[a], kvs, 1)], WritePairs(h[a], kvs, 1))

\* (*Attributes).WithValues on an even-length list: a new map, the receiver's
\* entries copied into it, then the pairs written
WithValues(h, a, kvs) ==
    Append(h, WritePairs([k \in DOMAIN h[a] |-> h[a][k]], kvs, 1))

\* (*Attributes).Value: a map read, nil for a missing key
Value(h, a, key) == IF key \in DOMAIN h[a] THEN h[a][key] ELSE NilVal

CallAttributesNew ==
    /\ ~panicked
    /\ Len(heap) < MaxObjs
    /\ \E kvs \in KvLists(Len(heap) + 1) :
        IF Len(kvs) % 2 # 0
        THEN /\ panicked' = TRUE
             /\ UNCHANGED <<heap, log, seen>>
        ELSE /\ heap' = AttributesNew(heap, kvs)
             /\ log' = Append(log, [parent |-> 0, kvs |-> kvs])
             /\ UNCHANGED <<seen, panicked>>
    /\ UNCHANGED statusVars

CallWithValues ==
    /\ ~panicked
    /\ Len(heap) < MaxObjs
    /\ \E a \in DOMAIN heap, kvs \in KvLists(Len(heap) + 1) :
        IF Len(kvs) % 2 # 0
        THEN /\ panicked' = TRUE
             /\ UNCHANGED <<heap, log, seen>>
        ELSE /\ heap' = WithValues(heap, a, kvs)
             /\ log' = Append(log, [parent |-> a, kvs |-> log[a].kvs \o kvs])
             /\ UNCHANGED <<seen, panicked>>
    /\ UNCHANGED statusVars

CallValue ==
    /\ ~panicked
    /\ \E a \in DOMAIN heap, key \in Keys :
        seen' = [a |-> a, key |-> key, val |-> Value(heap, a, key)]
    /\ UNCHANGED <<heap, log, panicked>>
    /\ UNCHANGED statusVars

AttrNext ==
    \/ CallAttributesNew
    \/ CallWithValues
    \/ CallValue

SpecAttr == Init /\ [][AttrNext]_vars

(***************************************************************************)
(* Properties of package status, checked under Spec.                       *)
(***************************************************************************)
\* the errors that offer the retrieval operation GRPCStatus(), whatever their type
OffersStatus(err) == err.kind \in {"status", "third"}

\* C1: a Status built by New(code, msg) converts to the nil error if and only
\* if code is OK, through s.Err() and through Error(code, msg) alike; every
\* other code gives a non-nil error.
C1_ErrNilIffOK ==
    /\ \A c \in Codes, msg \in Msgs :
        call.op = "Err" /\ call.in.s = [code |-> c, message |-> msg, details |-> <<>>]
            => (call.out.err = NilErr <=> c = OK)
    /\ call.op = "Error" => (call.out.err = NilErr <=> call.in.c = OK)

C1_Witness ==
    /\ call.op = "Err"
    /\ call.in.s = [code |-> OK, message |-> "boom", details |-> <<>>]
    /\ call.out.err = NilErr

\* C2: for a non-nil error, FromError looks only at whether the error offers
\* GRPCStatus(): if so it returns exactly the embedded Status and true, if not
\* it returns Status{Unknown, err.Error(), no details} and false; the flag is
\* false exactly when the Status was synthesized.
C2_FromErrorByCapability ==
    call.op = "FromError" /\ call.in.err # NilErr =>
        /\ OffersStatus(call.in.err) =>
               call.out = [s |-> call.in.err.st, ok |-> TRUE]
        /\ ~OffersStatus(call.in.err) =>
               call.out = [s |-> [code |-> Unknown, message |-> call.in.err.text,
                                  details |-> <<>>],
                           ok |-> FALSE]
        /\ call.out.ok = FALSE <=> ~OffersStatus(call.in.err)

C2_Witness ==
    /\ call.op = "FromError"
    /\ call.in.err.kind = "third"
    /\ call.in.err.st # NilStatus
    /\ call.in.err.st.code = DeadlineExceeded
    /\ Len(call.in.err.st.details) = MaxDetails
    /\ call.out = [s |-> call.in.err.st, ok |-> TRUE]

\* C3 as stated: FromError(nil) returns a Status value whose code is OK, with
\* recognized true, and Convert(nil) is that OK Status.
C3_NilErrorGivesOKStatus ==
    /\ call.op = "FromError" /\ call.in.err = NilErr =>
           /\ call.out.ok
           /\ call.out.s # NilStatus
           /\ call.out.s.code = OK
    /\ call.op = "Convert" /\ call.in.err = NilErr =>
           /\ call.out.s # NilStatus
           /\ call.out.s.code = OK

\* C3 as amended: FromError(nil) returns the nil (absent) *Status, not a
\* constructed Status, with recognized true; Convert(nil) is that nil Status.
C3_NilErrorGivesNilStatus ==
    /\ call.op = "FromError" /\ call.in.err = NilErr =>
           call.out = [s |-> NilStatus, ok |-> TRUE]
    /\ call.op = "Convert" /\ call.in.err = NilErr => call.out.s = NilStatus

C3_Witness ==
    /\ call.op = "FromError"
    /\ call.in.err = NilErr
    /\ call.out.ok

C5_FromContextErrorMapping ==
    call.op = "FromContextError" =>
        /\ call.in.err = NilErr => call.out.s = NilStatus
        /\ call.in.err = ctxDeadlineExceeded =>
               call.out.s = [code |-> DeadlineExceeded,
                             message |-> "context deadline exceeded",
                             details |-> <<>>]
        /\ call.in.err = ctxCanceled =>
               call.out.s = [code |-> Canceled, message |-> "context canceled",
                             details |-> <<>>]
        /\ call.in.err \notin {NilErr, ctxDeadlineExceeded, ctxCanceled} =>
               call.out.s = [code |-> Unknown, message |-> call.in.err.text,
                             details |-> <<>>]

C5_Witness ==
    /\ call.op = "FromContextError"
    /\ call.in.err = [kind |-> "plain", text |-> "context canceled"]
    /\ call.out.s.code = Unknown

C7_ErrorRoundTrip ==
    call.op = "Error" /\ call.in.c # OK =>
        /\ FromError(call.out.err).ok
        /\ FromError(call.out.err).s # NilStatus
        /\ FromError(call.out.err).s.code = call.in.c
        /\ FromError(call.out.err).s.message = call.in.msg
        /\ Code(call.out.err) = call.in.c

C7_Witness ==
    /\ call.op = "Error"
    /\ call.in.c = DeadlineExceeded
    /\ call.in.msg = "boom"
    /\ call.out.err # NilErr

\* C8: a non-nil error never contains an OK code: Code(err) is not OK and the
\* Status from FromError(err) / Convert(err) does not have code OK.
C8_NonNilErrorNeverOK ==
    /\ call.op = "Code" /\ call.in.err # NilErr => call.out.code # OK
    /\ call.op \in {"FromError", "Convert"} /\ call.in.err # NilErr
           /\ call.out.s # NilStatus
           => call.out.s.code # OK

(***************************************************************************)
(* Properties of package attributes, checked under SpecAttr.               *)
(***************************************************************************)
\* the pairs of a list whose key is key
PairsWithKey(kvs, key) == {i \in 1..(Len(kvs) \div 2) : kvs[2 * i - 1] = key}

\* the value of the last pair with the key, nil when there is none
LastValue(kvs, key) ==
    LET idx == PairsWithKey(kvs, key)
    IN  IF idx = {}
        THEN NilVal
        ELSE kvs[2 * (CHOOSE i \in idx : \A j \in idx : j <= i)]

\* C9: no call changes an existing Attributes: every object stays allocated and
\* Value(k) on it reads the same after the call as before, for every key.
C9_WithValuesLeavesReceiver ==
    [][\A a \in DOMAIN heap :
          /\ a \in DOMAIN heap'
          /\ \A key \in Keys : Value(heap', a, key) = Value(heap, a, key)]_vars

\* a grandchild overrides a key of its parent, which overrides it of the root
C9_Witness ==
    \E c \in DOMAIN heap, key \in Keys :
        /\ log[c].parent # 0
        /\ log[log[c].parent].parent # 0
        /\ Value(heap, log[log[c].parent].parent, key) # NilVal
        /\ Value(heap, log[c].parent, key)
               # Value(heap, log[log[c].parent].parent, key)
        /\ Value(heap, c, key) # Value(heap, log[c].parent, key)

====
